---- MODULE Spec2Model ----
(***************************************************************************)
(* safe-chain proxy (src/proxy/src/server/proxy.rs, src/proxy/src/main.rs) *)
(*                                                                         *)
(* run_server spawns server_task under a graceful-shutdown coordinator and *)
(* waits for the shutdown signal, then at most 30 seconds for the tasks.   *)
(* server_task binds the listener and serves every accepted connection     *)
(* through the layer stack                                                 *)
(*   BodyLimit / Trace / ConsumeErr / Upgrade(CONNECT) /                   *)
(*   RemoveResponseHeader / RemoveRequestHeader / http_plain_proxy.        *)
(* A CONNECT request is answered by http_connect_accept; on Ok the         *)
(* upgraded connection is handed to the TCP forwarder, which connects to   *)
(* the ProxyTarget stored in the request.  Every other request is          *)
(* forwarded by http_plain_proxy.                                          *)
(***************************************************************************)
EXTENDS Integers, Sequences, FiniteSets, TLC

VARIABLES
    shutdown,   \* run_server: "Running" | "Draining" | "Returned" | "Panicked"
    clock,      \* seconds elapsed since the shutdown signal
    listener,   \* server_task: "binding" | "serving" | "stopped" | "panicked" | "cancelled"
    atDrain,    \* the tasks that were active when the shutdown signal arrived
    conn,       \* conn[c]: the connection task c and the request it carries
    tun,        \* tun[c]: the bytes of the tunnel of connection c
    hs          \* a header map under the hop-by-hop removal layers

vars == <<shutdown, clock, listener, atDrain, conn, tun, hs>>

----------------------------------------------------------------------------
(* Bounds of the model *)

MaxConns == 2
MaxBytes == 2
MaxHeaders == 2
TickSeconds == 10

(* Program constants *)

DrainLimit == 30
StatusOK == 200
BAD_REQUEST == 400
BAD_GATEWAY == 502

Conns == 1 .. MaxConns
ServerTask == 0

----------------------------------------------------------------------------
(* Requests, authorities and what the environment answers *)

Methods == {"CONNECT", "GET"}
Hosts == {"", "a", "b"}
Ports == {80, 443}
Bodies == {"x", "y"}
NoBody == ""
Bytes == {0, 1}

NoAuthority == [host |-> "", port |-> 0]
Authorities == [host : Hosts \ {""}, port : Ports]

Requests == [method : Methods, host : Hosts, port : Ports]
NoRequest == [method |-> "", host |-> "", port |-> 0]

\* The origins of the environment: host "a" accepts connections, host "b"
\* refuses them.
Reachable(authority) == authority.host = "a"

\* What EasyHttpWebClient::serve can come back with for a request: an origin
\* that is reached answers with any status and body, or breaks the protocol;
\* an origin that is not reached is an error.
OriginStatuses == {200, 404, 502}
ClientError == [ok |-> FALSE, status |-> 0, body |-> NoBody]
Outcomes == [ok : {TRUE}, status : OriginStatuses, body : Bodies] \cup {ClientError}
ClientOutcomes(r) ==
    IF r.host # "" /\ Reachable([host |-> r.host, port |-> r.port])
    THEN Outcomes
    ELSE {ClientError}

----------------------------------------------------------------------------
(* The handlers and layers of server_task *)

\* RequestContext::try_from(&req).map(|ctx| ctx.host_with_port())
host_with_port(r) ==
    IF r.host = ""
    THEN [ok |-> FALSE, authority |-> NoAuthority]
    ELSE [ok |-> TRUE, authority |-> [host |-> r.host, port |-> r.port]]

\* A slip in http_connect_accept: the two status codes are exchanged.
http_connect_accept_swapped(r) ==
    LET a == host_with_port(r) IN
    IF a.ok
    THEN [ok |-> TRUE, status |-> BAD_REQUEST, target |-> a.authority]
    ELSE [ok |-> FALSE, status |-> StatusOK, target |-> NoAuthority]

\* A slip in http_connect_accept: the Err arm does not return, so the
\* request falls through to the Ok at the end.
http_connect_accept_fallthrough(r) ==
    LET a == host_with_port(r) IN
    [ok |-> TRUE, status |-> StatusOK, target |-> a.authority]

\* A slip in http_connect_accept: the port of the request is dropped and the
\* target gets the HTTPS port.
http_connect_accept_https_port(r) ==
    LET a == host_with_port(r) IN
    IF a.ok
    THEN [ok |-> TRUE, status |-> StatusOK,
          target |-> [host |-> a.authority.host, port |-> 443]]
    ELSE [ok |-> FALSE, status |-> BAD_REQUEST, target |-> NoAuthority]

\* http_connect_accept: Ok((200, req with ProxyTarget)) or Err(400)
http_connect_accept(r) ==
    LET a == host_with_port(r) IN
    IF a.ok
    THEN [ok |-> TRUE, status |-> StatusOK, target |-> a.authority]
    ELSE [ok |-> FALSE, status |-> BAD_REQUEST, target |-> NoAuthority]

\* A slip in http_plain_proxy: the error of the client is passed on with `?`.
http_plain_proxy_propagates(outcome) ==
    IF outcome.ok
    THEN [ok |-> TRUE, status |-> outcome.status, body |-> outcome.body]
    ELSE [ok |-> FALSE, status |-> 0, body |-> NoBody]

\* A slip in http_plain_proxy: a server error of the origin is taken for a
\* failure of the forwarding and answered with the handler's own 502.
http_plain_proxy_masks(outcome) ==
    IF outcome.ok /\ outcome.status < 500
    THEN [ok |-> TRUE, status |-> outcome.status, body |-> outcome.body]
    ELSE [ok |-> TRUE, status |-> BAD_GATEWAY, body |-> NoBody]

\* http_plain_proxy: Result<Response, Infallible>
http_plain_proxy(outcome) ==
    IF outcome.ok
    THEN [ok |-> TRUE, status |-> outcome.status, body |-> outcome.body]
    ELSE [ok |-> TRUE, status |-> BAD_GATEWAY, body |-> NoBody]

\* ConsumeErrLayer::default(): an error of the inner service becomes a
\* response, so the connection task never sees an error.
ConsumeErr(result) ==
    IF result.ok THEN result
    ELSE [ok |-> TRUE, status |-> 500, body |-> NoBody]

\* A slip in server_task: a matcher that takes every method for an upgrade.
MatchesUpgrade_any(r) == r.method \in Methods

\* MethodMatcher::CONNECT
MatchesUpgrade(r) == r.method = "CONNECT"

\* A slip in server_task: the header layers listed before the upgrade layer.
LayerStack_headers_first ==
    <<"BodyLimit", "Trace", "ConsumeErr",
      "RemoveResponseHeader", "RemoveRequestHeader", "Upgrade">>

\* The layers around http_plain_proxy, outermost first: the body limit wraps
\* the HTTP service, whose own stack is the tuple of server_task.
LayerStack ==
    <<"BodyLimit", "Trace", "ConsumeErr", "Upgrade",
      "RemoveResponseHeader", "RemoveRequestHeader">>

UpgradeIndex == CHOOSE i \in 1 .. Len(LayerStack) : LayerStack[i] = "Upgrade"

\* The layers and the handler a request goes through: the upgrade layer
\* answers a matching request itself and never calls the inner service.
RequestPath(r) ==
    IF MatchesUpgrade(r)
    THEN SubSeq(LayerStack, 1, UpgradeIndex) \o <<"http_connect_accept">>
    ELSE LayerStack \o <<"http_plain_proxy">>

----------------------------------------------------------------------------
(* State *)

FreeConn ==
    [st |-> "free", req |-> NoRequest, path |-> <<>>, target |-> NoAuthority,
     connects |-> <<>>, resps |-> <<>>, body |-> NoBody,
     failed |-> FALSE, herr |-> FALSE, origin |-> <<>>]

NoTunnel ==
    [cSent |-> <<>>, c2o |-> <<>>, oRecv |-> <<>>,
     oSent |-> <<>>, o2c |-> <<>>, cRecv |-> <<>>,
     cEof |-> FALSE, oEof |-> FALSE]

\* The states in which connection c is a running task.
LiveStates == {"reading", "received", "forwarding", "upgraded", "tunnel"}

ActiveTasks ==
    {c \in Conns : conn[c].st \in LiveStates}
    \cup (IF listener \in {"binding", "serving"} THEN {ServerTask} ELSE {})

Exited == shutdown \in {"Returned", "Panicked"}

----------------------------------------------------------------------------
(* RemoveRequestHeaderLayer::hop_by_hop, RemoveResponseHeaderLayer::hop_by_hop *)

\* Header names are HeaderName values, already in lower case.  The value of a
\* connection header names another header, or is "close".
HeaderNames == {"connection", "keep-alive", "te", "x-a", "host"}
Headers ==
    [name : {"connection"}, value : {"x-a", "close"}]
        \cup [name : HeaderNames \ {"connection"}, value : {"1"}]

RECURSIVE SeqsUpTo(_, _)
SeqsUpTo(S, n) ==
    IF n = 0 THEN {<<>>}
    ELSE LET shorter == SeqsUpTo(S, n - 1)
         IN shorter \cup {Append(q, e) : q \in {x \in shorter : Len(x) = n - 1}, e \in S}

HeaderMaps == SeqsUpTo(Headers, MaxHeaders)

\* server_task names Connection and Keep-Alive among the headers removed; what
\* else the layer removes, and whether it also removes the headers a
\* connection header lists, is fixed by the library: every choice is taken.
HopByHopSets == {{"connection", "keep-alive"} \cup extra : extra \in SUBSET {"te"}}

Removed(names, listed, h) ==
    names \cup IF listed
               THEN {h[i].value : i \in {j \in DOMAIN h : h[j].name = "connection"}}
               ELSE {}

\* A slip in the layer: only the first matching entry of the multimap goes.
hop_by_hop_first_match(names, listed, h) ==
    LET hit == {i \in DOMAIN h : h[i].name \in Removed(names, listed, h)}
    IN IF hit = {} THEN h
       ELSE LET k == CHOOSE i \in hit : \A j \in hit : i <= j
            IN SubSeq(h, 1, k - 1) \o SubSeq(h, k + 1, Len(h))

\* The layer removes every entry of the multimap whose name is hop-by-hop and
\* keeps the others in their order, duplicates included.
hop_by_hop(names, listed, h) ==
    LET gone == Removed(names, listed, h)
    IN SelectSeq(h, LAMBDA e : e.name \notin gone)

NoHeaders ==
    [names |-> {}, listed |-> FALSE, h |-> <<>>, once |-> <<>>, twice |-> <<>>, passes |-> 0]

Init ==
    /\ shutdown = "Running"
    /\ clock = 0
    /\ listener = "binding"
    /\ atDrain = {}
    /\ conn = [c \in Conns |-> FreeConn]
    /\ tun = [c \in Conns |-> NoTunnel]
    /\ hs = NoHeaders

----------------------------------------------------------------------------
(* server_task: bind, then serve until the guard is cancelled *)

\* TcpListener::build().bind(..): a failure panics server_task.
Bind(ok) ==
    /\ ~Exited
    /\ listener = "binding"
    /\ listener' = IF ok THEN "serving" ELSE "panicked"
    /\ UNCHANGED <<shutdown, clock, atDrain, conn, tun, hs>>

\* A slip in server_task: serve() in place of serve_graceful(guard, ..).
AcceptGuard_Always == TRUE

\* serve_graceful accepts while the guard is not cancelled; every accepted
\* connection is a task of its own.
AcceptGuard == shutdown = "Running"

Accept(c) ==
    /\ listener = "serving"
    /\ AcceptGuard
    /\ conn[c].st = "free"
    /\ \A d \in Conns : d < c => conn[d].st # "free"
    /\ conn' = [conn EXCEPT ![c].st = "reading"]
    /\ UNCHANGED <<shutdown, clock, listener, atDrain, tun, hs>>

\* The HTTP server reads one request from the connection.
ReceiveRequest(c, r) ==
    /\ ~Exited
    /\ conn[c].st = "reading"
    /\ conn' = [conn EXCEPT ![c].st = "received", ![c].req = r]
    /\ UNCHANGED <<shutdown, clock, listener, atDrain, tun, hs>>

\* The client goes away before it sent a request.
ClientLeaves(c) ==
    /\ ~Exited
    /\ conn[c].st = "reading"
    /\ conn' = [conn EXCEPT ![c].st = "done"]
    /\ UNCHANGED <<shutdown, clock, listener, atDrain, tun, hs>>

----------------------------------------------------------------------------
(* The CONNECT branch: UpgradeLayer, http_connect_accept, Forwarder *)

\* UpgradeLayer on a matching request: the responder decides the response;
\* on Ok the response is written and the upgraded connection goes to the
\* forwarder, on Err the response is written and nothing else happens.
UpgradeRespond(c) ==
    /\ ~Exited
    /\ conn[c].st = "received"
    /\ MatchesUpgrade(conn[c].req)
    /\ LET r == http_connect_accept(conn[c].req) IN
       conn' = [conn EXCEPT
                  ![c].path = RequestPath(conn[c].req),
                  ![c].target = r.target,
                  ![c].resps = Append(@, r.status),
                  ![c].st = IF r.ok THEN "upgraded" ELSE "done"]
    /\ UNCHANGED <<shutdown, clock, listener, atDrain, tun, hs>>

\* Forwarder::ctx() connects to the ProxyTarget of the request.  A failure is
\* consumed by ConsumeErrLayer: nothing is written and the upgraded
\* connection is dropped.
ForwarderConnect(c) ==
    /\ ~Exited
    /\ conn[c].st = "upgraded"
    /\ LET ok == Reachable(conn[c].target) IN
       conn' = [conn EXCEPT
                  ![c].connects = Append(@, conn[c].target),
                  ![c].failed = ~ok,
                  ![c].st = IF ok THEN "tunnel" ELSE "done"]
    /\ UNCHANGED <<shutdown, clock, listener, atDrain, tun, hs>>

----------------------------------------------------------------------------
(* The plain branch: the header layers and http_plain_proxy *)

\* The request passes the layers and http_plain_proxy hands it to the client.
PlainForward(c) ==
    /\ ~Exited
    /\ conn[c].st = "received"
    /\ ~MatchesUpgrade(conn[c].req)
    /\ conn' = [conn EXCEPT
                  ![c].path = RequestPath(conn[c].req),
                  ![c].st = "forwarding"]
    /\ UNCHANGED <<shutdown, clock, listener, atDrain, tun, hs>>

\* A slip in http_plain_proxy: the result of the client is unwrapped, and the
\* panic of the failure takes the process down.
PlainRespond_unwrap(c, outcome) ==
    /\ ~Exited
    /\ conn[c].st = "forwarding"
    /\ outcome \in ClientOutcomes(conn[c].req)
    /\ listener' = IF outcome.ok THEN listener ELSE "panicked"
    /\ conn' = [d \in Conns |->
                  IF d = c
                  THEN [conn[c] EXCEPT
                          !.failed = ~outcome.ok,
                          !.resps = IF outcome.ok THEN Append(@, outcome.status) ELSE @,
                          !.body = outcome.body,
                          !.st = "done"]
                  ELSE IF ~outcome.ok /\ conn[d].st \in LiveStates
                  THEN [conn[d] EXCEPT !.st = "cancelled"]
                  ELSE conn[d]]
    /\ UNCHANGED <<shutdown, clock, atDrain, tun, hs>>

\* client.serve(req) comes back and the handler's response is written.
PlainRespond(c, outcome) ==
    /\ ~Exited
    /\ conn[c].st = "forwarding"
    /\ outcome \in ClientOutcomes(conn[c].req)
    /\ LET h == http_plain_proxy(outcome)
           r == ConsumeErr(h) IN
       conn' = [conn EXCEPT
                  ![c].herr = ~h.ok,
                  ![c].origin = IF outcome.ok
                                THEN <<[status |-> outcome.status,
                                        body |-> outcome.body]>>
                                ELSE <<>>,
                  ![c].failed = ~outcome.ok,
                  ![c].resps = Append(@, r.status),
                  ![c].body = r.body,
                  ![c].st = "done"]
    /\ UNCHANGED <<shutdown, clock, listener, atDrain, tun, hs>>

----------------------------------------------------------------------------
(* The tunnel: Forwarder copies the bytes of each direction in order until *)
(* the source of that direction ends, and is done when both have ended     *)

IsPrefix(s, t) == Len(s) <= Len(t) /\ SubSeq(t, 1, Len(s)) = s

\* One step of a copy: the oldest byte read from the source is written to
\* the destination.
CopyStep(buf, recv) == [buf |-> Tail(buf), recv |-> Append(recv, Head(buf))]

\* The client writes a byte into the tunnel.
ClientSend(c, b) ==
    /\ ~Exited
    /\ conn[c].st = "tunnel"
    /\ ~tun[c].cEof
    /\ Len(tun[c].cSent) < MaxBytes
    /\ tun' = [tun EXCEPT ![c].cSent = Append(@, b), ![c].c2o = Append(@, b)]
    /\ UNCHANGED <<shutdown, clock, listener, atDrain, conn, hs>>

\* The origin writes a byte into the tunnel.
OriginSend(c, b) ==
    /\ ~Exited
    /\ conn[c].st = "tunnel"
    /\ ~tun[c].oEof
    /\ Len(tun[c].oSent) < MaxBytes
    /\ tun' = [tun EXCEPT ![c].oSent = Append(@, b), ![c].o2c = Append(@, b)]
    /\ UNCHANGED <<shutdown, clock, listener, atDrain, conn, hs>>

RelayToOrigin(c) ==
    /\ ~Exited
    /\ conn[c].st = "tunnel"
    /\ tun[c].c2o # <<>>
    /\ LET r == CopyStep(tun[c].c2o, tun[c].oRecv) IN
       tun' = [tun EXCEPT ![c].c2o = r.buf, ![c].oRecv = r.recv]
    /\ UNCHANGED <<shutdown, clock, listener, atDrain, conn, hs>>

RelayToClient(c) ==
    /\ ~Exited
    /\ conn[c].st = "tunnel"
    /\ tun[c].o2c # <<>>
    /\ LET r == CopyStep(tun[c].o2c, tun[c].cRecv) IN
       tun' = [tun EXCEPT ![c].o2c = r.buf, ![c].cRecv = r.recv]
    /\ UNCHANGED <<shutdown, clock, listener, atDrain, conn, hs>>

\* The client, or the origin, ends its side of the stream.
ClientEof(c) ==
    /\ ~Exited
    /\ conn[c].st = "tunnel"
    /\ ~tun[c].cEof
    /\ tun' = [tun EXCEPT ![c].cEof = TRUE]
    /\ UNCHANGED <<shutdown, clock, listener, atDrain, conn, hs>>

OriginEof(c) ==
    /\ ~Exited
    /\ conn[c].st = "tunnel"
    /\ ~tun[c].oEof
    /\ tun' = [tun EXCEPT ![c].oEof = TRUE]
    /\ UNCHANGED <<shutdown, clock, listener, atDrain, conn, hs>>

\* A direction has ended when it has read the end of its source, which
\* comes after the last byte of it.
DirectionEnded(t, dir) ==
    IF dir = "c2o" THEN t.cEof /\ t.c2o = <<>> ELSE t.oEof /\ t.o2c = <<>>

\* The forwarder returns when both directions have ended: the tunnel is
\* closed.
ForwarderReturns(c) ==
    /\ ~Exited
    /\ conn[c].st = "tunnel"
    /\ DirectionEnded(tun[c], "c2o")
    /\ DirectionEnded(tun[c], "o2c")
    /\ conn' = [conn EXCEPT ![c].st = "done"]
    /\ UNCHANGED <<shutdown, clock, listener, atDrain, tun, hs>>

\* An I/O error (reset, broken pipe) ends the forwarder: the error is
\* consumed and both sides are dropped with what was still in flight.
TunnelBreaks(c) ==
    /\ ~Exited
    /\ conn[c].st = "tunnel"
    /\ conn' = [conn EXCEPT ![c].st = "broken"]
    /\ UNCHANGED <<shutdown, clock, listener, atDrain, tun, hs>>

----------------------------------------------------------------------------
(* run_server: the shutdown signal, the drain and its 30 second limit *)

\* A slip in run_server: on the signal it returns without draining.
Signal_NoDrain ==
    /\ shutdown = "Running"
    /\ shutdown' = "Returned"
    /\ clock' = 0
    /\ atDrain' = ActiveTasks
    /\ UNCHANGED <<listener, conn, tun, hs>>

\* The shutdown signal arrives: the guards are cancelled.
Signal ==
    /\ shutdown = "Running"
    /\ shutdown' = "Draining"
    /\ clock' = 0
    /\ atDrain' = ActiveTasks
    /\ UNCHANGED <<listener, conn, tun, hs>>

\* serve_graceful sees the cancellation and returns: server_task is done.
ListenerStops ==
    /\ shutdown = "Draining"
    /\ listener = "serving"
    /\ listener' = "stopped"
    /\ UNCHANGED <<shutdown, clock, atDrain, conn, tun, hs>>

\* A connection that is waiting for a request is closed by the graceful
\* executor of the HTTP server.
IdleCloses(c) ==
    /\ shutdown = "Draining"
    /\ conn[c].st = "reading"
    /\ conn' = [conn EXCEPT ![c].st = "done"]
    /\ UNCHANGED <<shutdown, clock, listener, atDrain, tun, hs>>

\* Time passes while the coordinator waits for the tasks.
Tick ==
    /\ shutdown = "Draining"
    /\ ActiveTasks # {}
    /\ clock < DrainLimit
    /\ clock' = IF clock + TickSeconds > DrainLimit
                THEN DrainLimit ELSE clock + TickSeconds
    /\ UNCHANGED <<shutdown, listener, atDrain, conn, tun, hs>>

\* A slip in run_server: the drain is not awaited.
DrainCompletes_NotAwaited ==
    /\ shutdown = "Draining"
    /\ shutdown' = "Returned"
    /\ UNCHANGED <<clock, listener, atDrain, conn, tun, hs>>

\* shutdown_with_limit returns Ok once no task is left: run_server returns.
DrainCompletes ==
    /\ shutdown = "Draining"
    /\ ActiveTasks = {}
    /\ shutdown' = "Returned"
    /\ UNCHANGED <<clock, listener, atDrain, conn, tun, hs>>

\* A slip in run_server: a shorter limit than the 30 seconds.
ShutdownLimit_Short == DrainLimit \div 3

\* The limit the coordinator waits for the tasks.
ShutdownLimit == DrainLimit

\* shutdown_with_limit returns Err when the limit elapses with tasks left:
\* expect() panics, the process ends and takes the remaining tasks with it.
DrainTimesOut ==
    /\ shutdown = "Draining"
    /\ ActiveTasks # {}
    /\ clock >= ShutdownLimit
    /\ shutdown' = "Panicked"
    /\ listener' = IF listener \in {"binding", "serving"} THEN "cancelled" ELSE listener
    /\ conn' = [c \in Conns |->
                  IF conn[c].st \in LiveStates
                  THEN [conn[c] EXCEPT !.st = "cancelled"] ELSE conn[c]]
    /\ UNCHANGED <<clock, atDrain, tun, hs>>

----------------------------------------------------------------------------
(* Specifications *)

\* What the connection c can do.
ConnNext(c, reqs, outs) ==
    \/ Accept(c)
    \/ \E r \in reqs : ReceiveRequest(c, r)
    \/ ClientLeaves(c)
    \/ UpgradeRespond(c)
    \/ ForwarderConnect(c)
    \/ PlainForward(c)
    \/ \E o \in ClientOutcomes(conn[c].req) \cap outs : PlainRespond(c, o)
    \/ ClientEof(c)
    \/ OriginEof(c)
    \/ ForwarderReturns(c)
    \/ TunnelBreaks(c)

BytesNext(c) ==
    \/ \E b \in Bytes : ClientSend(c, b)
    \/ \E b \in Bytes : OriginSend(c, b)
    \/ RelayToOrigin(c)
    \/ RelayToClient(c)

\* The server and its connections, every kind of request.
Next ==
    \/ \E ok \in BOOLEAN : Bind(ok)
    \/ \E c \in Conns : ConnNext(c, Requests, Outcomes)

Spec == Init /\ [][Next]_vars

\* One connection, with the bytes of its tunnel.
TunnelNext ==
    \/ \E ok \in BOOLEAN : Bind(ok)
    \/ ConnNext(1, Requests, Outcomes)
    \/ BytesNext(1)

TunnelSpec == Init /\ [][TunnelNext]_vars

\* The server, its connections and the shutdown of run_server.
DrainRequests == {r \in Requests : r.port = 443 /\ r.host = "a"}
DrainOutcomes == {o \in Outcomes : o.status \in {0, 200} /\ o.body \in {NoBody, "x"}}

ShutdownNext ==
    \/ \E ok \in BOOLEAN : Bind(ok)
    \/ \E c \in Conns : ConnNext(c, DrainRequests, DrainOutcomes)
    \/ Signal
    \/ ListenerStops
    \/ \E c \in Conns : IdleCloses(c)
    \/ Tick
    \/ DrainCompletes
    \/ DrainTimesOut

ShutdownSpec == Init /\ [][ShutdownNext]_vars

\* Time passes and the coordinator is woken when the tasks are gone or the
\* limit has elapsed.
FairShutdownSpec ==
    /\ ShutdownSpec
    /\ WF_vars(Tick)
    /\ WF_vars(DrainCompletes)
    /\ WF_vars(DrainTimesOut)

----------------------------------------------------------------------------
(* Properties *)

IsConnect(c) == conn[c].req.method = "CONNECT"
IsPlain(c) == conn[c].req.method \notin {"", "CONNECT"}
Dispatched(c) == conn[c].st \notin {"free", "reading", "received"}
RequestAuthority(c) == [host |-> conn[c].req.host, port |-> conn[c].req.port]
TunnelOpened(c) == IsConnect(c) /\ conn[c].connects # <<>> /\ ~conn[c].failed
ClosedCleanly(c) == TunnelOpened(c) /\ conn[c].st = "done"

C2_BadTargetIs400 ==
    \A c \in Conns :
        (IsConnect(c) /\ conn[c].req.host = "" /\ Dispatched(c))
        => /\ conn[c].resps = <<400>>
           /\ conn[c].target = NoAuthority
           /\ conn[c].connects = <<>>
           /\ conn[c].st \notin {"upgraded", "tunnel", "broken"}

W2_BadTargetAnswered ==
    \E c \in Conns :
        /\ IsConnect(c) /\ conn[c].req.host = "" /\ conn[c].st = "done"
        /\ conn[c].resps = <<400>>

\* C3: a CONNECT request whose target refuses the outbound connection gets a
\* gateway-class error and its connection is closed, and no 200 is sent to the
\* client before the result of the outbound connection is known.
X3_RefusedGetsGatewayError ==
    \A c \in Conns :
        (IsConnect(c) /\ conn[c].req.host # "" /\ ~Reachable(RequestAuthority(c)))
        => /\ conn[c].st = "upgraded" => 200 \notin {conn[c].resps[i] : i \in DOMAIN conn[c].resps}
           /\ (conn[c].connects # <<>> /\ conn[c].failed)
              => /\ conn[c].st = "done"
                 /\ conn[c].resps # <<>>
                 /\ conn[c].resps[Len(conn[c].resps)] \in {502, 504}
                 /\ \A i \in DOMAIN conn[c].resps : conn[c].resps[i] # 200

\* C4: when the forwarding client fails for a request that is not CONNECT the
\* handler answers 502; the handler never returns an error, and exactly one
\* response is written for the request.
C4_ForwardFailureIs502 ==
    \A c \in Conns :
        /\ IsPlain(c) => ~conn[c].herr
        /\ (IsPlain(c) /\ conn[c].st \in {"received", "forwarding"})
           => conn[c].resps = <<>>
        /\ (IsPlain(c) /\ conn[c].st = "done") => Len(conn[c].resps) = 1
        /\ (IsPlain(c) /\ conn[c].st = "done" /\ conn[c].failed)
           => conn[c].resps = <<502>>

W4_ForwardFailed ==
    \E c \in Conns :
        /\ IsPlain(c) /\ conn[c].st = "done" /\ conn[c].failed
        /\ conn[c].req.host = "b"
        /\ conn[c].resps = <<502>>

CancelledTasks ==
    {c \in Conns : conn[c].st = "cancelled"}
    \cup (IF listener = "cancelled" THEN {ServerTask} ELSE {})

\* C8: after the shutdown signal run_server ends when no task is left or when
\* the 30 seconds have elapsed, whichever is first: it does not end before
\* the limit while a task is active, the wait never exceeds the limit, and it
\* always ends.
C8_EndsWhenDrainedOrAtLimit ==
    /\ [](clock <= 30)
    /\ [](Exited /\ clock < 30 => CancelledTasks = {} /\ ActiveTasks = {})
    /\ [](shutdown = "Returned" => CancelledTasks = {} /\ ActiveTasks = {})
    /\ [](shutdown = "Panicked" => clock = 30)
    /\ [](shutdown = "Draining" /\ clock = 30 => ENABLED (DrainCompletes \/ DrainTimesOut))
    /\ (shutdown = "Draining" ~> Exited)

W8_EndedAtLimit ==
    /\ shutdown = "Panicked"
    /\ clock = 30
    /\ Cardinality(CancelledTasks) >= 2

\* C9: every task that was active when the shutdown signal arrived has
\* completed or has been cancelled when run_server has ended.
C9_DrainedTasksAccounted ==
    Exited =>
        /\ ServerTask \in atDrain => listener \in {"stopped", "panicked", "cancelled"}
        /\ \A c \in atDrain \ {ServerTask} :
              conn[c].st \in {"done", "broken", "cancelled"}

W9_SomeDoneSomeCancelled ==
    /\ Exited
    /\ \E c, d \in atDrain \ {ServerTask} :
          conn[c].st = "done" /\ conn[d].st = "cancelled"

\* C10: once the shutdown signal has arrived no further connection is
\* accepted, while a connection that is established keeps being served (its
\* next step stays possible) and is cancelled only by the end of the limit.
ServeStep(c) == ConnNext(c, Requests, Outcomes)

C10_DrainingStopsAcceptOnly ==
    /\ [][shutdown # "Running"
            => \A c \in Conns : conn[c].st = "free" => conn'[c].st = "free"]_vars
    /\ [][\A c \in Conns :
             (conn[c].st \in LiveStates /\ conn'[c].st \notin LiveStates)
             => \/ conn'[c].st \in {"done", "broken"}
                \/ conn'[c].st = "cancelled" /\ clock = 30 /\ shutdown' = "Panicked"]_vars
    /\ [](\A c \in Conns :
             (shutdown = "Draining" /\ conn[c].st \in LiveStates)
             => ENABLED ServeStep(c))

W10_ServedWhileDraining ==
    \E c, d \in Conns :
        /\ shutdown = "Draining" /\ clock > 0
        /\ listener = "serving"
        /\ conn[c].st = "tunnel" /\ c \in atDrain
        /\ conn[d].st = "free"

\* C11: when the limit elapses with tasks still active the shutdown ends as an
\* expected outcome: the remaining tasks are cancelled and run_server returns;
\* the shutdown path does not fail or panic because of the timeout.
X11_TimeoutIsNoError ==
    (Exited /\ CancelledTasks # {}) => shutdown = "Returned"

Errored(c) ==
    \/ conn[c].failed
    \/ conn[c].st = "broken"
    \/ conn[c].resps = <<400>>

X13_BindFailureIsFatal ==
    listener = "panicked"
    => /\ \A c \in Conns : conn[c].st = "free"
       /\ Exited \/ ENABLED (DrainCompletes \/ DrainTimesOut)

InPath(c, layer) == \E i \in DOMAIN conn[c].path : conn[c].path[i] = layer
Handler(c) == conn[c].path[Len(conn[c].path)]

\* C14: dispatch is exclusive by method: a CONNECT request is handled by
\* http_connect_accept and the forwarder only and never reaches
\* http_plain_proxy; any other request is handled by http_plain_proxy only and
\* never opens a tunnel.
C14_DispatchByMethod ==
    \A c \in Conns :
        /\ (IsConnect(c) /\ Dispatched(c))
           => /\ Handler(c) = "http_connect_accept"
              /\ ~InPath(c, "http_plain_proxy")
              /\ conn[c].st # "forwarding"
              /\ conn[c].origin = <<>>
        /\ (IsPlain(c) /\ Dispatched(c))
           => /\ Handler(c) = "http_plain_proxy"
              /\ ~InPath(c, "http_connect_accept")
              /\ conn[c].st \notin {"upgraded", "tunnel", "broken"}
              /\ conn[c].target = NoAuthority
              /\ conn[c].connects = <<>>
        /\ conn[c].st \in {"free", "reading", "received"} => conn[c].path = <<>>

W14_BothBranchesTaken ==
    \E c, d \in Conns :
        /\ IsConnect(c) /\ conn[c].st = "tunnel"
        /\ IsPlain(d) /\ conn[d].st = "done" /\ conn[d].origin # <<>>

\* C15 as claimed: the header sanitizer and the body limiter are applied to
\* every request and response on both branches, the CONNECT request and its
\* response included.
X15_SanitizerOnBothBranches ==
    \A c \in Conns :
        (Dispatched(c) /\ conn[c].req # NoRequest)
        => /\ InPath(c, "BodyLimit")
           /\ InPath(c, "RemoveRequestHeader")
           /\ InPath(c, "RemoveResponseHeader")

\* C15 as amended: the body limiter is applied on both branches; the header
\* layers are applied to every request that is not CONNECT and to its
\* response, while a CONNECT request is answered by the upgrade layer and
\* neither it nor its response passes the header layers.
C15_SanitizerOnPlainBranchOnly ==
    \A c \in Conns :
        (Dispatched(c) /\ conn[c].req # NoRequest)
        => /\ InPath(c, "BodyLimit")
           /\ IsPlain(c)
              => InPath(c, "RemoveRequestHeader") /\ InPath(c, "RemoveResponseHeader")
           /\ IsConnect(c)
              => ~InPath(c, "RemoveRequestHeader") /\ ~InPath(c, "RemoveResponseHeader")

W15_ConnectAnsweredOutsideHeaderLayers ==
    \E c, d \in Conns :
        /\ IsConnect(c) /\ conn[c].resps = <<200>>
        /\ conn[c].path = <<"BodyLimit", "Trace", "ConsumeErr", "Upgrade", "http_connect_accept">>
        /\ IsPlain(d) /\ Dispatched(d) /\ InPath(d, "RemoveRequestHeader")

----------------------------------------------------------------------------
(* The header layers on their own *)

SanitizeInit ==
    /\ shutdown = "Running"
    /\ clock = 0
    /\ listener = "binding"
    /\ atDrain = {}
    /\ conn = [c \in Conns |-> FreeConn]
    /\ tun = [c \in Conns |-> NoTunnel]
    /\ \E names \in HopByHopSets, listed \in BOOLEAN, h \in HeaderMaps :
           hs = [names |-> names, listed |-> listed, h |-> h,
                 once |-> <<>>, twice |-> <<>>, passes |-> 0]

\* The header map passes a hop-by-hop removal layer.
Sanitize ==
    /\ hs.passes = 0
    /\ hs' = [hs EXCEPT !.once = hop_by_hop(hs.names, hs.listed, hs.h), !.passes = 1]
    /\ UNCHANGED <<shutdown, clock, listener, atDrain, conn, tun>>

\* What came out passes such a layer again.
SanitizeAgain ==
    /\ hs.passes = 1
    /\ hs' = [hs EXCEPT !.twice = hop_by_hop(hs.names, hs.listed, hs.once), !.passes = 2]
    /\ UNCHANGED <<shutdown, clock, listener, atDrain, conn, tun>>

SanitizeNext == Sanitize \/ SanitizeAgain

SanitizeSpec == SanitizeInit /\ [][SanitizeNext]_vars

\* C16: hop-by-hop removal is idempotent: applied to its own result it
\* removes nothing, and after one application no removed name is left.
C16_SanitizeIdempotent ==
    /\ hs.passes = 2 => hs.twice = hs.once
    /\ hs.passes >= 1
       => /\ \A i \in DOMAIN hs.once : hs.once[i].name \notin hs.names
          /\ Len(hs.once) <= Len(hs.h)

W16_DuplicatesRemovedOnce ==
    /\ hs.passes = 2
    /\ Len(hs.h) = MaxHeaders
    /\ \A i \in DOMAIN hs.h : hs.h[i].name = "connection"
    /\ hs.once = <<>>

ShutdownMoves ==
    {<<"Running", "Draining">>, <<"Draining", "Returned">>, <<"Draining", "Panicked">>}

\* C18: the shutdown state only moves forward, from Running to Draining and
\* from Draining to the end of run_server, and once run_server has ended no
\* connection task is started and none changes any more.
C18_ShutdownMovesForward ==
    [][/\ shutdown' # shutdown => <<shutdown, shutdown'>> \in ShutdownMoves
       /\ Exited => /\ shutdown' = shutdown
                    /\ conn' = conn
                    /\ ActiveTasks' \subseteq ActiveTasks
       /\ \A c \in Conns :
              (conn[c].st = "free" /\ conn'[c].st # "free") => shutdown = "Running"]_vars

W18_EndedWithFreeSlot ==
    /\ Exited
    /\ atDrain # {}
    /\ \E c \in Conns : conn[c].st = "free"
    /\ \E c \in Conns : conn[c].st \in {"done", "cancelled"}

\* C20: the forwarder connects for a CONNECT request only after
\* http_connect_accept returned Ok for that request, once, and only to the
\* authority taken from the request and stored as ProxyTarget; the request
\* is otherwise unchanged, and the response on Ok is a bare 200.
C20_ForwarderFollowsAccept ==
    /\ [](\A c \in Conns :
            /\ conn[c].connects # <<>>
               => /\ IsConnect(c)
                  /\ host_with_port(conn[c].req).ok
                  /\ conn[c].resps = <<StatusOK>>
                  /\ conn[c].target = RequestAuthority(c)
                  /\ conn[c].connects = <<conn[c].target>>
            /\ conn[c].st \in {"upgraded", "tunnel", "broken"}
               => conn[c].resps = <<StatusOK>> /\ conn[c].body = NoBody
            /\ (IsConnect(c) /\ Dispatched(c) /\ ~host_with_port(conn[c].req).ok)
               => conn[c].connects = <<>> /\ conn[c].target = NoAuthority)
    /\ [][\A c \in Conns :
            /\ conn[c].st \notin {"free", "reading"} => conn'[c].req = conn[c].req
            /\ conn'[c].connects # conn[c].connects => conn[c].st = "upgraded"]_vars

W20_ConnectedToStoredTarget ==
    \E c, d \in Conns :
        /\ conn[c].st = "tunnel"
        /\ conn[c].req = [method |-> "CONNECT", host |-> "a", port |-> 80]
        /\ conn[c].connects = <<[host |-> "a", port |-> 80]>>
        /\ IsConnect(d) /\ conn[d].resps = <<BAD_REQUEST>> /\ conn[d].connects = <<>>

====
